---- MODULE Spec2Model ----
(***************************************************************************)
(* Model of expo-router's Toolbar facade                                   *)
(* (packages/expo-router/src/toolbar/elements.tsx and index.ts).           *)
(*                                                                         *)
(* The program is a set of React function components.  Its only persistent *)
(* state is the per-instance useMemo hook that holds the item identifier;  *)
(* everything else is recomputed by each render.  The model keeps          *)
(*   - the hook state, component type and identifier of every tree slot,   *)
(*   - the identifier generator's history,                                 *)
(*   - the most recent component call (its props and the element it        *)
(*     returned, i.e. what was handed to the native bridge).               *)
(***************************************************************************)
EXTENDS Integers, Sequences, FiniteSets, TLC

VARIABLES
  hooks,        \* slot -> memoizedState of the instance's useMemo hook
  kind,         \* slot -> component mounted in the slot, "none" if unmounted
  passed,       \* slot -> identifier prop of the item the instance last returned
  firstId,      \* slot -> identifier prop of the instance's first render
  generated,    \* identifiers nanoid() has returned so far
  nanoidCalls,  \* number of nanoid() invocations
  mounts,       \* number of instance mounts
  lastRender    \* the most recent component call and the element it returned

vars == <<hooks, kind, passed, firstId, generated, nanoidCalls, mounts, lastRender>>

(***************************************************************************)
(* JavaScript values.  Every value is a record of the same shape so that   *)
(* values of different JS types can be compared.                           *)
(*   t : typeof tag, n : numeric payload, s : string payload,              *)
(*   o : own properties (key -> value), a : array elements                 *)
(***************************************************************************)
V(t, n, s, o, a) == [t |-> t, n |-> n, s |-> s, o |-> o, a |-> a]

undefined == V("undefined", 0, "", <<>>, <<>>)
null == V("null", 0, "", <<>>, <<>>)
Num(k) == V("number", k, "", <<>>, <<>>)
Str(x) == V("string", 0, x, <<>>, <<>>)
Bool(b) == V("boolean", IF b THEN 1 ELSE 0, "", <<>>, <<>>)
Fn(name) == V("function", 0, name, <<>>, <<>>)
Obj(f) == V("object", 0, "", f, <<>>)
Arr(q) == V("array", 0, "", <<>>, q)

\* property read: a missing key reads as undefined
Get(o, k) == IF k \in DOMAIN o THEN o[k] ELSE undefined

\* object rest in a destructuring pattern: the own keys not named in it
Omit(o, ks) == [k \in (DOMAIN o) \ ks |-> o[k]]

\* JSX attribute list / object spread: later entries win
Spread(earlier, later) == later @@ earlier

\* React.createElement(type, props)
createElement(type, props) == V("element", 0, type.s, props, <<>>)

\* ToBoolean, as used by the conditional operator
Truthy(v) ==
  CASE v.t = "undefined" -> FALSE
    [] v.t = "null" -> FALSE
    [] v.t = "boolean" -> v.n = 1
    [] v.t = "number" -> v.n # 0
    [] v.t = "string" -> v.s # ""
    [] OTHER -> TRUE

Digit(d) == <<"0", "1", "2", "3", "4", "5", "6", "7", "8", "9">>[d + 1]

RECURSIVE NatToString(_)
NatToString(k) == IF k < 10 THEN Digit(k) ELSE NatToString(k \div 10) \o Digit(k % 10)

NumberToString(k) == IF k < 0 THEN "-" \o NatToString(0 - k) ELSE NatToString(k)

\* String(value)
RECURSIVE String(_)
RECURSIVE Join(_)
String(v) ==
  CASE v.t = "undefined" -> "undefined"
    [] v.t = "null" -> "null"
    [] v.t = "boolean" -> IF v.n = 1 THEN "true" ELSE "false"
    [] v.t = "number" -> NumberToString(v.n)
    [] v.t = "string" -> v.s
    [] v.t = "array" -> Join(v.a)
    [] v.t = "function" -> "function " \o v.s
    [] OTHER -> "[object Object]"
\* Array.prototype.join(","): null and undefined elements print as ""
Join(q) ==
  IF q = <<>> THEN ""
  ELSE LET h == IF Head(q).t \in {"undefined", "null"} THEN "" ELSE String(Head(q))
       IN IF Len(q) = 1 THEN h ELSE h \o "," \o Join(Tail(q))

(***************************************************************************)
(* Imports of elements.tsx: component references and the id generator.     *)
(***************************************************************************)
RouterToolbarHost == Fn("RouterToolbarHost")
RouterToolbarItem == Fn("RouterToolbarItem")
InternalLinkPreviewContext == Fn("InternalLinkPreviewContext")
LinkMenu == Fn("LinkMenu")
LinkMenuAction == Fn("LinkMenuAction")
View == Fn("View")

\* cap on the number of mounts in one behaviour
MaxMounts == 3

\* The strings nanoid() can return: random strings over a 64-symbol alphabet,
\* here as many as a behaviour has mounts.
IdSpace == { "V1StGXR8_Z" \o NatToString(i) : i \in 1..MaxMounts }

\* nanoid(): the set of strings one call can return.  The generator is random;
\* its contract, assumed here, is that it does not return the same id twice.
nanoid == IdSpace \ generated

(***************************************************************************)
(* React's useMemo(nextCreate, deps) on one hook cell.                     *)
(***************************************************************************)
NoHook == [set |-> FALSE, value |-> "", deps |-> <<>>]

\* Object.is on every pair of dependencies
areHookInputsEqual(nextDeps, prevDeps) == nextDeps = prevDeps

\* TRUE when useMemo has to call nextCreate: on mount, or when deps changed
MemoCreates(hook, deps) == ~hook.set \/ ~areHookInputsEqual(deps, hook.deps)

\* the hook cell after the call; created is what nextCreate() would return
useMemo(hook, created, deps) ==
  IF MemoCreates(hook, deps)
  THEN [set |-> TRUE, value |-> created, deps |-> deps]
  ELSE hook

(***************************************************************************)
(* elements.tsx                                                            *)
(***************************************************************************)
ToolbarMenuWrapped == Fn("ToolbarMenu")
ToolbarMenu == LinkMenu

ToolbarMenuAction == LinkMenuAction

\* the dependency arrays of the three useMemo calls
ButtonIdDepsOnProps(props) == <<Get(props, "children")>>
ButtonIdDeps(props) == <<>>

SpacerIdDeps(props) == <<>>

ViewIdDepsOnStyle(props) == <<Get(props, "style")>>
ViewIdDeps(props) == <<>>

ToolbarButtonTitleFromRest(props, id) ==
  LET sf == Get(props, "sf")
      onPress == Get(props, "onPress")
      rest == Omit(props, {"children", "sf", "onPress"})
  IN createElement(RouterToolbarItem,
       Spread(rest, [onSelected |-> onPress,
                     identifier |-> Str(id),
                     title |-> Str(String(Get(rest, "children"))),
                     systemImageName |-> sf]))
ToolbarButtonHiddenDefault(props, id) ==
  LET children == Get(props, "children")
      sf == Get(props, "sf")
      onPress == Get(props, "onPress")
      rest == Omit(props, {"children", "sf", "onPress"})
  IN createElement(RouterToolbarItem,
       Spread(Spread([hidden |-> Bool(FALSE)], rest),
              [onSelected |-> onPress,
               identifier |-> Str(id),
               title |-> Str(String(children)),
               systemImageName |-> sf]))
ToolbarButtonTitleOptional(props, id) ==
  LET children == Get(props, "children")
      sf == Get(props, "sf")
      onPress == Get(props, "onPress")
      rest == Omit(props, {"children", "sf", "onPress"})
  IN createElement(RouterToolbarItem,
       Spread(rest, [onSelected |-> onPress,
                     identifier |-> Str(id),
                     title |-> IF children = undefined THEN undefined
                               ELSE Str(String(children)),
                     systemImageName |-> sf]))
ToolbarButtonRestLast(props, id) ==
  LET children == Get(props, "children")
      sf == Get(props, "sf")
      onPress == Get(props, "onPress")
      rest == Omit(props, {"children", "sf", "onPress"})
  IN createElement(RouterToolbarItem,
       Spread([onSelected |-> onPress,
               identifier |-> Str(id),
               title |-> Str(String(children)),
               systemImageName |-> sf], rest))
ToolbarButton(props, id) ==
  LET children == Get(props, "children")
      sf == Get(props, "sf")
      onPress == Get(props, "onPress")
      rest == Omit(props, {"children", "sf", "onPress"})
  IN createElement(RouterToolbarItem,
       Spread(rest, [onSelected |-> onPress,
                     identifier |-> Str(id),
                     title |-> Str(String(children)),
                     systemImageName |-> sf]))

ToolbarSpacerSharedId(props, id) ==
  LET width == Get(props, "width")
      rest == Omit(props, {"width"})
  IN createElement(RouterToolbarItem,
       Spread(rest, [identifier |-> Str("spacer"),
                     type |-> IF Truthy(width) THEN Str("fixedSpacer") ELSE Str("fluidSpacer"),
                     width |-> width]))
ToolbarSpacer(props, id) ==
  LET width == Get(props, "width")
      rest == Omit(props, {"width"})
  IN createElement(RouterToolbarItem,
       Spread(rest, [identifier |-> Str(id),
                     type |-> IF Truthy(width) THEN Str("fixedSpacer") ELSE Str("fluidSpacer"),
                     width |-> width]))

ToolbarViewStyleFirst(props, id) ==
  LET children == Get(props, "children")
      style == Get(props, "style")
      rest == Omit(props, {"children", "style"})
  IN createElement(RouterToolbarItem,
       Spread(rest, [identifier |-> Str(id),
                     children |-> createElement(View,
                        [style |-> Arr(<<Obj([position |-> Str("absolute")]), style>>),
                         children |-> children])]))
ToolbarViewStyleOnItem(props, id) ==
  LET children == Get(props, "children")
      style == Get(props, "style")
      rest == Omit(props, {"children"})
  IN createElement(RouterToolbarItem,
       Spread(rest, [identifier |-> Str(id),
                     children |-> createElement(View,
                        [style |-> Arr(<<style, Obj([position |-> Str("absolute")])>>),
                         children |-> children])]))
ToolbarView(props, id) ==
  LET children == Get(props, "children")
      style == Get(props, "style")
      rest == Omit(props, {"children", "style"})
  IN createElement(RouterToolbarItem,
       Spread(rest, [identifier |-> Str(id),
                     children |-> createElement(View,
                        [style |-> Arr(<<style, Obj([position |-> Str("absolute")])>>),
                         children |-> children])]))

ToolbarHostValueFromProps(props) ==
  createElement(InternalLinkPreviewContext,
    Spread([value |-> Obj([isVisible |-> Bool(FALSE), href |-> Str("")]),
            children |-> createElement(RouterToolbarHost, props)],
           Omit(props, {"children"})))
ToolbarHostChildrenOnly(props) ==
  createElement(InternalLinkPreviewContext,
    [value |-> Obj([isVisible |-> Bool(FALSE), href |-> Str("")]),
     children |-> createElement(RouterToolbarHost,
                    [k \in (DOMAIN props) \cap {"children"} |->
                       IF props[k].t = "array" /\ Len(props[k].a) > 1
                       THEN Arr(<<Head(props[k].a)>>) ELSE props[k]])])
ToolbarHost(props) ==
  createElement(InternalLinkPreviewContext,
    [value |-> Obj([isVisible |-> Bool(FALSE), href |-> Str("")]),
     children |-> createElement(RouterToolbarHost, props)])

(***************************************************************************)
(* index.ts: Toolbar = Object.assign(ToolbarHost, {...})                   *)
(***************************************************************************)
Toolbar ==
  V("function", 0, "ToolbarHost",
    [Menu |-> ToolbarMenu,
     MenuAction |-> ToolbarMenuAction,
     Button |-> Fn("ToolbarButton"),
     Spacer |-> Fn("ToolbarSpacer"),
     View |-> Fn("ToolbarView")],
    <<>>)

(***************************************************************************)
(* react-native resolves the style prop of a View with StyleSheet.flatten: *)
(* arrays are flattened recursively, falsy entries are skipped and a later *)
(* entry overrides an earlier one key by key.                              *)
(***************************************************************************)
RECURSIVE flattenStyle(_)
RECURSIVE flattenAll(_, _)
flattenStyle(style) ==
  CASE style.t = "object" -> style.o
    [] style.t = "array" -> flattenAll(style.a, <<>>)
    [] OTHER -> <<>>
flattenAll(q, result) ==
  IF q = <<>> THEN result
  ELSE flattenAll(Tail(q), Spread(result, flattenStyle(Head(q))))

(***************************************************************************)
(* The inputs: tree slots and the props a parent can pass.                 *)
(***************************************************************************)
Slots == {"item0", "item1"}

Components == {"ToolbarButton", "ToolbarSpacer", "ToolbarView"}

handlePress == Fn("handlePress")

\* hidden / sharesBackground / hidesSharedBackground, shared by all items
Flags == [hidden |-> Bool(TRUE), sharesBackground |-> Bool(FALSE),
          hidesSharedBackground |-> Bool(TRUE)]

\* props the type declarations do not list but JavaScript callers can pass
Extras == [identifier |-> Str("mine"), type |-> Str("custom"),
           title |-> Str("Extra"), onSelected |-> Fn("other"),
           systemImageName |-> Str("star")]

ButtonProps ==
  { Spread(c, r) :
      c \in { <<>>, [children |-> Str("Search")], [children |-> Str("")],
              [children |-> Arr(<<Str("Page "), Num(12)>>)] },
      r \in { <<>>,
              Spread(Flags, [sf |-> Str("mic"), onPress |-> handlePress,
                             width |-> Num(44), tintColor |-> Str("red")]),
              Extras } }

SpacerProps ==
  { Spread(w, r) :
      w \in { <<>>, [width |-> undefined], [width |-> Num(0)],
              [width |-> Num(20)] },
      r \in { <<>>, Flags, Extras } }

ViewProps ==
  { Spread(Spread([children |-> createElement(Fn("TextInput"), <<>>)], st), r) :
      st \in { <<>>,
               [style |-> Obj([position |-> Str("relative"), width |-> Num(32)])],
               [style |-> Arr(<<Obj([width |-> Num(32), height |-> Num(32)]),
                                Obj([position |-> Str("static"), width |-> Num(64)])>>)],
               [style |-> Arr(<<Arr(<<Obj([position |-> Str("relative")]), Bool(FALSE)>>),
                                Obj([opacity |-> Num(1)])>>)] },
      r \in { <<>>, Flags, Extras } }

PropsOf(c) ==
  CASE c = "ToolbarButton" -> ButtonProps
    [] c = "ToolbarSpacer" -> SpacerProps
    [] c = "ToolbarView" -> ViewProps
    [] OTHER -> {}

\* the child declarations of a Toolbar tree
MaxChildren == 2
Declarations ==
  { createElement(Toolbar.o.Menu, [title |-> Str("Options")]),
    createElement(Toolbar.o.Button, [sf |-> Str("mic")]) }
ChildLists == UNION { [1..n -> Declarations] : n \in 0..MaxChildren }
HostProps ==
  { <<>> } \cup { [children |-> d] : d \in Declarations }
           \cup { [children |-> Arr(q)] : q \in ChildLists }
           \cup { [children |-> d,
                   value |-> Obj([isVisible |-> Bool(TRUE), href |-> Str("/p")])] :
                   d \in Declarations }

MenuProps == { [title |-> Str("Options")], [title |-> Str("Delete"), destructive |-> Bool(TRUE)] }

(***************************************************************************)
(* The React runtime: mounting, re-rendering and unmounting instances.     *)
(***************************************************************************)
NoId == undefined

NoRender == [component |-> "none", op |-> "none", slot |-> "", created |-> FALSE,
             props |-> <<>>, element |-> undefined]

Init ==
  /\ hooks = [s \in Slots |-> NoHook]
  /\ kind = [s \in Slots |-> "none"]
  /\ passed = [s \in Slots |-> NoId]
  /\ firstId = [s \in Slots |-> NoId]
  /\ generated = {}
  /\ nanoidCalls = 0
  /\ mounts = 0
  /\ lastRender = NoRender

\* the dependency array the component passes to useMemo
IdDeps(c, props) ==
  CASE c = "ToolbarButton" -> ButtonIdDeps(props)
    [] c = "ToolbarSpacer" -> SpacerIdDeps(props)
    [] c = "ToolbarView" -> ViewIdDeps(props)

\* the component function called with props, its useMemo returning id
Call(c, props, id) ==
  CASE c = "ToolbarButton" -> ToolbarButton(props, id)
    [] c = "ToolbarSpacer" -> ToolbarSpacer(props, id)
    [] c = "ToolbarView" -> ToolbarView(props, id)

\* one execution of the component body of the instance in slot s
RenderInstance(s, c, props, op) ==
  LET deps == IdDeps(c, props)
      creates == MemoCreates(hooks[s], deps)
  IN \E created \in (IF creates THEN nanoid ELSE {hooks[s].value}) :
       LET hook == useMemo(hooks[s], created, deps)
           element == Call(c, props, hook.value)
       IN /\ hooks' = [hooks EXCEPT ![s] = hook]
          /\ generated' = IF creates THEN generated \cup {created} ELSE generated
          /\ nanoidCalls' = IF creates THEN nanoidCalls + 1 ELSE nanoidCalls
          /\ passed' = [passed EXCEPT ![s] = Get(element.o, "identifier")]
          /\ firstId' = IF op = "mount"
                        THEN [firstId EXCEPT ![s] = Get(element.o, "identifier")]
                        ELSE firstId
          /\ lastRender' = [component |-> c, op |-> op, slot |-> s,
                            created |-> creates, props |-> props,
                            element |-> element]

Mount(s, c, props) ==
  /\ kind[s] = "none"
  /\ mounts < MaxMounts
  /\ kind' = [kind EXCEPT ![s] = c]
  /\ mounts' = mounts + 1
  /\ RenderInstance(s, c, props, "mount")

Rerender(s, props) ==
  /\ kind[s] # "none"
  /\ RenderInstance(s, kind[s], props, "update")
  /\ UNCHANGED <<kind, mounts>>

Unmount(s) ==
  /\ kind[s] # "none"
  /\ kind' = [kind EXCEPT ![s] = "none"]
  /\ hooks' = [hooks EXCEPT ![s] = NoHook]
  /\ passed' = [passed EXCEPT ![s] = NoId]
  /\ firstId' = [firstId EXCEPT ![s] = NoId]
  /\ UNCHANGED <<generated, nanoidCalls, mounts, lastRender>>

\* the Toolbar root has no hooks: a render is one call of ToolbarHost
RenderHost(props) ==
  /\ lastRender' = [component |-> "ToolbarHost", op |-> "render", slot |-> "",
                    created |-> FALSE, props |-> props,
                    element |-> ToolbarHost(props)]
  /\ UNCHANGED <<hooks, kind, passed, firstId, generated, nanoidCalls, mounts>>

\* <Toolbar.Menu {...props} /> and <Toolbar.MenuAction {...props} />
RenderMenu(member, props) ==
  /\ lastRender' = [component |-> member, op |-> "render", slot |-> "",
                    created |-> FALSE, props |-> props,
                    element |-> createElement(Toolbar.o[member], props)]
  /\ UNCHANGED <<hooks, kind, passed, firstId, generated, nanoidCalls, mounts>>

Next ==
  \/ \E s \in Slots, c \in Components : \E props \in PropsOf(c) : Mount(s, c, props)
  \/ \E s \in Slots : \E props \in PropsOf(kind[s]) : Rerender(s, props)
  \/ \E s \in Slots : Unmount(s)
  \/ \E props \in HostProps : RenderHost(props)
  \/ \E member \in {"Menu", "MenuAction"}, props \in MenuProps : RenderMenu(member, props)

Spec == Init /\ [][Next]_vars

(***************************************************************************)
(* Properties                                                              *)
(***************************************************************************)
Mounted(s) == kind[s] # "none"

Descriptor == lastRender.element.o

\* C1: no two simultaneously mounted Button, Spacer or View instances pass
\* the same identifier to the native bridge; an identifier held by a live
\* instance is never given to another instance.
IdentifiersUnique ==
  \A s \in Slots, t \in Slots :
    (s # t /\ Mounted(s) /\ Mounted(t)) =>
      /\ passed[s].t = "string"
      /\ passed[s] # passed[t]

\* two Buttons are mounted side by side after an earlier instance was unmounted
TwoButtonsMounted ==
  /\ \A s \in Slots : kind[s] = "ToolbarButton"
  /\ mounts > Cardinality(Slots)

\* C2: every render of a mounted instance passes the identifier its first
\* render passed, whatever props the render receives.
IdentifierStable ==
  \A s \in Slots :
    Mounted(s) =>
      /\ passed[s] = firstId[s]
      /\ (lastRender.slot = s => Get(Descriptor, "identifier") = firstId[s])

\* a mounted Button has been re-rendered, here with an empty label
ButtonRerendered ==
  /\ lastRender.op = "update"
  /\ lastRender.component = "ToolbarButton"
  /\ Get(lastRender.props, "children") = Str("")
  /\ Mounted(lastRender.slot)

\* C3: a Spacer given a numeric width w passes type 'fixedSpacer' and width w;
\* a Spacer given no width passes type 'fluidSpacer' and width undefined.
SpacerClassifiesByWidth ==
  lastRender.component = "ToolbarSpacer" =>
    LET w == Get(lastRender.props, "width")
    IN IF w.t = "number"
       THEN Descriptor.type = Str("fixedSpacer") /\ Descriptor.width = w
       ELSE Descriptor.type = Str("fluidSpacer") /\ Descriptor.width = undefined

\* C4: a Button whose children is a string s, with no sf, passes title s.
ButtonStringTitle ==
  (/\ lastRender.component = "ToolbarButton"
   /\ Get(lastRender.props, "children").t = "string"
   /\ "sf" \notin DOMAIN lastRender.props) =>
     Descriptor.title = Get(lastRender.props, "children")

\* <Toolbar.Button>Search</Toolbar.Button> has been rendered
SearchButtonRendered ==
  /\ lastRender.component = "ToolbarButton"
  /\ Get(lastRender.props, "children") = Str("Search")
  /\ "sf" \notin DOMAIN lastRender.props

\* C5: a View wraps its content in exactly one container whose effective
\* position is 'absolute', whatever style the caller supplies; every other
\* entry of the caller's style is kept.
ViewAbsolute ==
  lastRender.component = "ToolbarView" =>
    LET container == Get(Descriptor, "children")
        caller == flattenStyle(Get(lastRender.props, "style"))
        effective == flattenStyle(Get(container.o, "style"))
    IN /\ container.t = "element"
       /\ container.s = View.s
       /\ Get(container.o, "children") = Get(lastRender.props, "children")
       /\ DOMAIN effective = (DOMAIN caller) \cup {"position"}
       /\ effective["position"] = Str("absolute")
       /\ \A k \in (DOMAIN caller) \ {"position"} : effective[k] = caller[k]

\* a View has been rendered with a nested array style that sets a position
ViewWithCallerPosition ==
  /\ lastRender.component = "ToolbarView"
  /\ Get(lastRender.props, "style").t = "array"
  /\ LET caller == flattenStyle(Get(lastRender.props, "style"))
     IN /\ Get(caller, "position") = Str("relative")
        /\ "opacity" \in DOMAIN caller

\* C6: a Button passes onSelected = onPress, systemImageName = sf, and width,
\* tintColor, hidden, sharesBackground, hidesSharedBackground as supplied
\* (absent when not supplied); the descriptor has no onPress, sf or children.
ButtonForwarding ==
  lastRender.component = "ToolbarButton" =>
    /\ Descriptor.onSelected = Get(lastRender.props, "onPress")
    /\ Descriptor.systemImageName = Get(lastRender.props, "sf")
    /\ \A k \in {"width", "tintColor", "hidden", "sharesBackground",
                 "hidesSharedBackground"} :
         IF k \in DOMAIN lastRender.props
         THEN k \in DOMAIN Descriptor /\ Descriptor[k] = lastRender.props[k]
         ELSE k \notin DOMAIN Descriptor
    /\ (DOMAIN Descriptor) \cap {"onPress", "sf", "children"} = {}

\* a Button has been rendered with every attribute supplied
FullButtonRendered ==
  /\ lastRender.component = "ToolbarButton"
  /\ {"children", "sf", "onPress", "width", "tintColor", "hidden",
      "sharesBackground", "hidesSharedBackground"} \subseteq DOMAIN lastRender.props

\* C7: every render of the Toolbar root supplies the context value
\* {isVisible: false, href: ''}, whatever its props and earlier renders.
HostContextPlaceholder ==
  lastRender.component = "ToolbarHost" =>
    /\ lastRender.element.s = InternalLinkPreviewContext.s
    /\ Get(Descriptor, "value") = Obj([isVisible |-> Bool(FALSE), href |-> Str("")])

\* the root has been rendered with a value prop of its own
HostRenderedWithValue ==
  /\ lastRender.component = "ToolbarHost"
  /\ Get(lastRender.props, "value") = Obj([isVisible |-> Bool(TRUE), href |-> Str("/p")])

\* C8: Toolbar.Menu and ToolbarMenu are LinkMenu, Toolbar.MenuAction and
\* ToolbarMenuAction are LinkMenuAction; an element made from them is the
\* element made from the underlying menu component.
MenuReexports ==
  /\ ToolbarMenu = LinkMenu
  /\ Toolbar.o.Menu = LinkMenu
  /\ ToolbarMenuAction = LinkMenuAction
  /\ Toolbar.o.MenuAction = LinkMenuAction
  /\ (lastRender.component = "Menu" =>
        lastRender.element = createElement(LinkMenu, lastRender.props))
  /\ (lastRender.component = "MenuAction" =>
        lastRender.element = createElement(LinkMenuAction, lastRender.props))

\* <Toolbar.Menu> has been rendered
MenuRendered ==
  /\ lastRender.component = "Menu"
  /\ lastRender.element.s = "LinkMenu"

\* C9: the identifier generator runs exactly once per mount and never on a
\* re-render: generator calls = mounts, and every mount (a remount included)
\* stores an identifier generated by that mount.
GeneratorOncePerMount ==
  /\ [](/\ nanoidCalls = mounts
        /\ (lastRender.op = "update" => ~lastRender.created)
        /\ (lastRender.op = "mount" => lastRender.created))
  /\ [][\A s \in Slots :
          (~Mounted(s) /\ kind'[s] # "none") =>
            /\ nanoidCalls' = nanoidCalls + 1
            /\ hooks'[s].value \in generated' \ generated]_vars

\* some slot has been unmounted and mounted again, then re-rendered
RemountedAndRerendered ==
  /\ mounts > Cardinality(Slots)
  /\ lastRender.op = "update"
  /\ Mounted(lastRender.slot)

\* C10: the Toolbar root passes all of its props to the native host
\* unchanged; the children arrive in the same order and number.
HostPassthrough ==
  lastRender.component = "ToolbarHost" =>
    LET host == Get(Descriptor, "children")
    IN /\ host.t = "element"
       /\ host.s = RouterToolbarHost.s
       /\ host.o = lastRender.props

\* the root has been rendered with two different children
HostRenderedWithTwoChildren ==
  /\ lastRender.component = "ToolbarHost"
  /\ Get(lastRender.props, "children").t = "array"
  /\ LET c == Get(lastRender.props, "children").a
     IN Len(c) = 2 /\ c[1] # c[2]

\* C11: a View passes hidden, sharesBackground and hidesSharedBackground to
\* the native item unchanged, together with the identifier; style and
\* children are not item props: the style is applied to the inner container
\* only and the children appear inside that container only.
ViewItemProps ==
  lastRender.component = "ToolbarView" =>
    LET container == Get(Descriptor, "children")
    IN /\ \A k \in {"hidden", "sharesBackground", "hidesSharedBackground"} :
            IF k \in DOMAIN lastRender.props
            THEN k \in DOMAIN Descriptor /\ Descriptor[k] = lastRender.props[k]
            ELSE k \notin DOMAIN Descriptor
       /\ Get(Descriptor, "identifier").t = "string"
       /\ "style" \notin DOMAIN Descriptor
       /\ container # Get(lastRender.props, "children")
       /\ container.t = "element"
       /\ container.s = View.s
       /\ Get(container.o, "style").t = "array"
       /\ Head(Get(container.o, "style").a) = Get(lastRender.props, "style")
       /\ Get(container.o, "children") = Get(lastRender.props, "children")

\* a View has been rendered with the three flags and a style of its own
FlaggedStyledViewRendered ==
  /\ lastRender.component = "ToolbarView"
  /\ {"hidden", "sharesBackground", "hidesSharedBackground", "style", "children"}
       \subseteq DOMAIN lastRender.props

\* C13: the title a Button passes is always present and always the string
\* String(children); a Button without children (icon only) passes the title
\* "undefined", not an absent title.
ButtonTitleAlwaysString ==
  lastRender.component = "ToolbarButton" =>
    /\ "title" \in DOMAIN Descriptor
    /\ Descriptor.title.t = "string"
    /\ Descriptor.title.s = String(Get(lastRender.props, "children"))
    /\ ("children" \notin DOMAIN lastRender.props =>
          Descriptor.title = Str("undefined"))

\* <Toolbar.Button sf="mic" /> has been rendered: an icon and no children
IconOnlyButtonRendered ==
  /\ lastRender.component = "ToolbarButton"
  /\ "children" \notin DOMAIN lastRender.props
  /\ Get(lastRender.props, "sf") = Str("mic")

\* C14: a caller cannot override the computed fields: the identifier passed
\* by Button, Spacer and View is the generated one, the Spacer's type is the
\* computed classification, and the Button's title, onSelected and
\* systemImageName are derived from children, onPress and sf, even when the
\* caller passes extra props with those names.
ComputedFieldsWin ==
  lastRender.component \in Components =>
    /\ Get(Descriptor, "identifier").t = "string"
    /\ Get(Descriptor, "identifier").s \in generated
    /\ (Mounted(lastRender.slot) =>
          Get(Descriptor, "identifier") = Str(hooks[lastRender.slot].value))
    /\ (lastRender.component = "ToolbarSpacer" =>
          Get(Descriptor, "type") =
            IF Truthy(Get(lastRender.props, "width"))
            THEN Str("fixedSpacer") ELSE Str("fluidSpacer"))
    /\ (lastRender.component = "ToolbarButton" =>
          /\ Get(Descriptor, "title") = Str(String(Get(lastRender.props, "children")))
          /\ Get(Descriptor, "onSelected") = Get(lastRender.props, "onPress")
          /\ Get(Descriptor, "systemImageName") = Get(lastRender.props, "sf"))

\* a Button has been rendered by a caller that also passes identifier, title,
\* onSelected and systemImageName props of its own
ButtonRenderedWithOverrides ==
  /\ lastRender.component = "ToolbarButton"
  /\ Get(lastRender.props, "children") = Str("Search")
  /\ Get(lastRender.props, "identifier") = Str("mine")
  /\ Get(lastRender.props, "title") = Str("Extra")
  /\ Get(lastRender.props, "onSelected") = Fn("other")
  /\ Get(lastRender.props, "systemImageName") = Str("star")

====
